---- MODULE Spec2Model ----
(***************************************************************************)
(* A model of app.py: the Streamlit script that shows the top weekly       *)
(* search terms of a country.  One script run is one request.  The two     *)
(* functions get_countries and execute_query sit behind st.cache_data      *)
(* (process-wide, time-to-live caches); the warehouse (BigQuery) is the    *)
(* environment and answers each submitted job with rows or with an error.  *)
(***************************************************************************)
EXTENDS Naturals, Integers, Sequences, FiniteSets

\* ------------------------------------------------------------------ bounds
\* the date widget offers the days 1..MaxDate (calendar_min_date..calendar_max_date)
MaxDate == 2
\* script runs of one session (the first run and its reruns)
MaxRuns == 3
\* at most MaxRows source rows per (country, week) bucket of a generated table
MaxRows == 7

\* --------------------------------------------------------- program constants
\* @st.cache_data(ttl=3600) on get_countries
TTL_COUNTRIES == 3600
\* @st.cache_data(ttl=600) on execute_query
TTL_QUERY == 600
\* WHERE rnk <= 5
TOP_N == 5

\* for pref in ("Philippines", "United States")
PREFS == <<"Philippines", "United States">>

\* ------------------------------------------------------------------ helpers
Range(s) == {s[i] : i \in 1..Len(s)}

SetMin(S) == CHOOSE x \in S : \A y \in S : x <= y

\* ------------------------------------------------------------- python values
\* What the script's date variables can hold: None, a datetime.date (its day in
\* items[1]) or a tuple of dates.
NoneV == [kind |-> "none", items |-> <<>>]

DateV(d) == [kind |-> "date", items |-> <<d>>]

TupleV(s) == [kind |-> "tuple", items |-> s]

Dates == 1..MaxDate

\* Python's lexicographic order on tuples of dates
RECURSIVE SeqGt(_, _)
SeqGt(s, t) ==
    IF s = <<>> THEN FALSE
    ELSE IF t = <<>> THEN TRUE
    ELSE IF s[1] # t[1] THEN s[1] > t[1]
    ELSE SeqGt(Tail(s), Tail(t))

\* x > y as line 154 evaluates it: date against date, or tuple against tuple
PyGt(x, y) ==
    IF x.kind = "date" /\ y.kind = "date" THEN x.items[1] > y.items[1]
    ELSE SeqGt(x.items, y.items)

\* isinstance(raw_range, tuple) and len(raw_range) == 2
IsPair(v) == v.kind = "tuple" /\ Len(v.items) = 2

\* lines 148-151: unpack a two-tuple, otherwise bind both names to raw_range
Unpack(rr) ==
    IF IsPair(rr) THEN <<DateV(rr.items[1]), DateV(rr.items[2])>>
    ELSE <<rr, rr>>

\* a normaliser that leaves the two dates as the widget gave them
OrderedNoSwap(p) == p

\* lines 154-155: if start_date > end_date, swap
Ordered(p) == IF PyGt(p[1], p[2]) THEN <<p[2], p[1]>> ELSE p

\* lines 147-155, the date range normalisation
NormalizeRange(rr) == Ordered(Unpack(rr))

\* ---------------------------------------------------------- default country
\* a default that takes the preferences last to first
pick_default_reversed(cs) ==
    IF "United States" \in Range(cs) THEN "United States"
    ELSE IF "Philippines" \in Range(cs) THEN "Philippines"
    ELSE cs[1]

\* lines 109-113
pick_default_country(cs) ==
    LET hits == {i \in 1..Len(PREFS) : PREFS[i] \in Range(cs)}
    IN  IF hits # {} THEN PREFS[SetMin(hits)] ELSE cs[1]

\* list.index: the zero-based place of the first occurrence, -1 for ValueError
ListIndex(cs, x) ==
    IF x \in Range(cs) THEN SetMin({i \in 1..Len(cs) : cs[i] = x}) - 1 ELSE -1

\* lines 128-131: [default_idx, whether the except ValueError branch ran]
DefaultIdx(cs, x) ==
    IF ListIndex(cs, x) >= 0 THEN [idx |-> ListIndex(cs, x), fallback |-> FALSE]
    ELSE [idx |-> 0, fallback |-> TRUE]

\* ---------------------------------------------------------------- warehouse
\* country_name values in ORDER BY country_name order
AllCountries == <<"France", "Germany", "Philippines", "United States">>

NameOrd(c) == SetMin({i \in 1..Len(AllCountries) : AllCountries[i] = c})

\* the names of S as ORDER BY country_name lists them
RECURSIVE SortedNames(_)
SortedNames(S) ==
    IF S = {} THEN <<>>
    ELSE LET c == CHOOSE x \in S : \A y \in S : NameOrd(x) <= NameOrd(y)
         IN  <<c>> \o SortedNames(S \ {c})

\* One source row of international_top_terms.  region tells apart the rows the
\* table holds for one term of one week (one per region and refresh).
Row(c, w, t, sc, rk, reg) ==
    [country_name |-> c, week |-> w, term |-> t, score |-> sc, rank |-> rk,
     region |-> reg]

\* The n source rows of one (country, week) bucket:
\*   by_rank      terms 1..n, rank i, score falling with the rank
\*   inverse      terms 1..n, rank i, score rising with the rank
\*   flat         terms 1..n, rank i, one score for all
\*   two_regions  every term listed for two regions with one rank and score
Patterns == {"by_rank", "inverse", "flat", "two_regions"}

Bucket(c, w, n, pat) ==
    {  CASE pat = "by_rank" -> Row(c, w, i, MaxRows + 1 - i, i, 1)
         [] pat = "inverse" -> Row(c, w, i, i, i, 1)
         [] pat = "flat" -> Row(c, w, i, 1, i, 1)
         [] OTHER -> Row(c, w, (i + 1) \div 2, MaxRows + 1 - ((i + 1) \div 2),
                         (i + 1) \div 2, 1 + (i % 2))
       : i \in 1..n }

\* a table that lists the countries of S: three terms in week 1 and MaxRows
\* in week 2 for the Philippines, one term in week 1 for any other country
CountryRows(S) ==
    UNION { IF c = "Philippines"
            THEN Bucket(c, 1, 3, "by_rank") \cup Bucket(c, 2, MaxRows, "by_rank")
            ELSE Bucket(c, 1, 1, "by_rank")
          : c \in S }

\* lines 55-60 and 77: SELECT DISTINCT country_name ... ORDER BY country_name,
\* then df["country_name"].dropna().tolist() (the query lists no NULL)
CountriesQuery(tbl) == SortedNames({r.country_name : r \in tbl})

\* lines 39-40: the rows of the WHERE clause
weekly_terms(tbl, country, start, end) ==
    {r \in tbl : r.country_name = country /\ start <= r.week /\ r.week <= end}

\* line 34-37: the orders ROW_NUMBER() ... ORDER BY score DESC may number the
\* rows of one partition in; rows of equal score come in any order
RECURSIVE ScoreOrders(_)
ScoreOrders(S) ==
    IF S = {} THEN {<<>>}
    ELSE LET top == {r \in S : \A q \in S : q.score <= r.score}
         IN  UNION {{<<r>> \o s : s \in ScoreOrders(S \ {r})} : r \in top}

\* line 44: WHERE rnk <= 5, the rows numbered 1..TOP_N of one order
Retained(order) == {order[i] : i \in {j \in 1..Len(order) : j <= TOP_N}}

\* the row sets one partition can keep
BucketResults(S) == {Retained(o) : o \in ScoreOrders(S)}

\* the results over the weeks ws, partition by partition (line 35)
RECURSIVE PartitionResults(_, _)
PartitionResults(rows, ws) ==
    IF ws = {} THEN {{}}
    ELSE LET w == CHOOSE x \in ws : TRUE
         IN  {a \cup b : a \in BucketResults({r \in rows : r.week = w}),
                         b \in PartitionResults(rows, ws \ {w})}

\* lines 27-46: the results the ranking query can give.  A result is the set of
\* source rows it keeps; the SELECT lists their term, week (as date), score and
\* the source's rank column.
TOP_TERMS_SQL(tbl, country, start, end) ==
    LET rows == weekly_terms(tbl, country, start, end)
    IN  PartitionResults(rows, {r.week : r \in rows})

\* ------------------------------------------------------------------- errors
NoErr == [cls |-> "None", text |-> ""]

\* what client.query(...).to_dataframe() can raise
Errors ==
    { [cls |-> "Forbidden", text |-> "billing disabled"],
      [cls |-> "BadRequest", text |-> "bytes billed limit exceeded"],
      [cls |-> "TooManyRequests", text |-> "rate limit exceeded"],
      [cls |-> "NotFound", text |-> "table not found"],
      [cls |-> "ServiceUnavailable", text |-> "backend error"],
      [cls |-> "TypeError", text |-> "not JSON serializable"] }

\* an except clause that leaves TooManyRequests to the generic handler
IsQuotaErrorNoThrottle(e) == e.cls \in {"Forbidden", "BadRequest"}

\* lines 69 and 99: except (gexc.Forbidden, gexc.BadRequest, gexc.TooManyRequests)
IsQuotaError(e) == e.cls \in {"Forbidden", "BadRequest", "TooManyRequests"}

QUOTA_TEXT == "BigQuery quota or credits exceeded. Please try again later."

\* lines 69-75 and 99-104: the st.error call of the except clause that runs
ErrorMessage(e, what) ==
    IF IsQuotaError(e)
    THEN [level |-> "error", text |-> QUOTA_TEXT, detail |-> ""]
    ELSE [level |-> "error", text |-> what, detail |-> e.text]

NoCountriesMsg ==
    [level |-> "warning", text |-> "No countries available from the dataset.",
     detail |-> ""]

NoDataMsg ==
    [level |-> "warning", text |-> "No data found for the selected filters.",
     detail |-> ""]

\* the answer of the warehouse to one job
Success(v) == [ok |-> TRUE, value |-> v, err |-> NoErr]

Failure(e, none) == [ok |-> FALSE, value |-> none, err |-> e]

\* a body that reports the failure and returns an empty list instead of stopping
get_countries_body_returns(out) ==
    [returns |-> TRUE, value |-> out.value,
     msgs |-> IF out.ok THEN <<>>
              ELSE <<ErrorMessage(out.err, "Unexpected error while loading countries: ")>>]

\* a body that itself stops the run on an empty list
get_countries_body_stops_on_empty(out) ==
    IF out.ok /\ out.value # <<>>
    THEN [returns |-> TRUE, value |-> out.value, msgs |-> <<>>]
    ELSE [returns |-> FALSE, value |-> <<>>,
          msgs |-> IF out.ok THEN <<NoCountriesMsg>>
                   ELSE <<ErrorMessage(out.err, "Unexpected error while loading countries: ")>>]

\* lines 67-78: the body of get_countries after the job's answer: it returns
\* the list, or reports and raises st.stop()
get_countries_body(out) ==
    IF out.ok
    THEN [returns |-> TRUE, value |-> out.value, msgs |-> <<>>]
    ELSE [returns |-> FALSE, value |-> <<>>,
          msgs |-> <<ErrorMessage(out.err, "Unexpected error while loading countries: ")>>]

\* lines 97-106: the body of execute_query after the job's answer
execute_query_body(out) ==
    IF out.ok
    THEN [returns |-> TRUE, value |-> out.value, msgs |-> <<>>]
    ELSE [returns |-> FALSE, value |-> {},
          msgs |-> <<ErrorMessage(out.err, "Unexpected error while loading search terms: ")>>]

\* ------------------------------------------------------------ st.cache_data
\* an entry that is stale as soon as the clock moves
FreshNoTtl(e, t, ttl) == t <= e.at

\* An entry is [key, value, at]; it is served while less than ttl seconds old.
Fresh(e, t, ttl) == t < e.at + ttl

\* the entries a call with this key is served from
Hit(cache, key, t, ttl) == {e \in cache : e.key = key /\ Fresh(e, t, ttl)}

\* storing a returned value replaces the key's entry and drops expired ones
Put(cache, key, value, t, ttl) ==
    {e \in cache : e.key # key /\ Fresh(e, t, ttl)}
        \cup {[key |-> key, value |-> value, at |-> t]}

\* a wrapper that stores whatever the body left, raised or not
AfterBodyAlways(cache, key, r, t, ttl) == Put(cache, key, r.value, t, ttl)

\* the cache after a call whose body ran: a value is stored only when the body
\* returned (st.stop() raises through the wrapper)
AfterBody(cache, key, r, t, ttl) ==
    IF r.returns THEN Put(cache, key, r.value, t, ttl) ELSE cache

\* -------------------------------------------------------------------- state
VARIABLES
    table,             \* the warehouse: the rows of international_top_terms
    now,               \* wall-clock seconds since the process started
    run,               \* script runs started so far
    ccache,            \* st.cache_data store of get_countries
    qcache,            \* st.cache_data store of execute_query
    pc,                \* where the current script run stands
    countries,         \* line 122
    default_country,   \* line 127
    default_idx,       \* lines 128-131
    idx_fallback,      \* whether the except ValueError branch of line 130 ran
    selected_country,  \* line 133
    raw_range,         \* line 138
    start_date,        \* lines 148-155
    end_date,
    df,                \* line 162: [has, rows]
    rendered,          \* what lines 164-185 drew: "nothing", "chart", "no_data"
    messages,          \* the st.error / st.warning calls of this run
    jobs,              \* the warehouse jobs this run submitted, with their answers
    lastC,             \* the last get_countries call
    lastQ              \* the last execute_query call

vars ==
    <<table, now, run, ccache, qcache, pc, countries, default_country,
      default_idx, idx_fallback, selected_country, raw_range, start_date,
      end_date, df, rendered, messages, jobs, lastC, lastQ>>

caches == <<ccache, qcache>>

sidebar == <<default_country, default_idx, idx_fallback, selected_country, raw_range>>

range == <<start_date, end_date>>

NoDf == [has |-> FALSE, rows |-> {}]

\* the record of a call that never happened
NoCall(key, none) ==
    [called |-> FALSE, key |-> key, ok |-> FALSE, ran |-> FALSE, sent |-> 0,
     stored |-> 0, value |-> none]

NoKey == <<"None", NoneV, NoneV>>

\* the script's names before the run binds them
FreshRun ==
    /\ countries = <<>>
    /\ default_country = "None"
    /\ default_idx = -1
    /\ idx_fallback = FALSE
    /\ selected_country = "None"
    /\ raw_range = NoneV
    /\ start_date = NoneV
    /\ end_date = NoneV
    /\ df = NoDf
    /\ rendered = "nothing"
    /\ messages = <<>>
    /\ jobs = <<>>

\* the process has started and the first script run is about to call
\* get_countries; the warehouse holds one of Tables
InitWith(Tables) ==
    /\ table \in Tables
    /\ now = 0
    /\ run = 1
    /\ ccache = {}
    /\ qcache = {}
    /\ pc = "countries"
    /\ FreshRun
    /\ lastC = NoCall(<<>>, <<>>)
    /\ lastQ = NoCall(NoKey, {})

\* ------------------------------------------------------------------ actions
\* line 122, get_countries() behind @st.cache_data(ttl=3600)
GetCountries ==
    /\ pc = "countries"
    /\ LET hit == Hit(ccache, <<>>, now, TTL_COUNTRIES)
       IN  IF hit # {}
           THEN LET e == CHOOSE x \in hit : TRUE
                IN  /\ countries' = e.value
                    /\ pc' = "empty_check"
                    /\ UNCHANGED <<ccache, messages, jobs>>
                    /\ lastC' = [called |-> TRUE, key |-> <<>>, ok |-> TRUE,
                                 ran |-> FALSE, sent |-> Len(jobs') - Len(jobs),
                                 stored |-> e.at,
                                 value |-> e.value]
           ELSE \E out \in {Success(CountriesQuery(table))}
                               \cup {Failure(x, <<>>) : x \in Errors} :
                  LET r == get_countries_body(out)
                  IN  /\ jobs' = Append(jobs, [query |-> "countries", ok |-> out.ok,
                                               err |-> out.err])
                      /\ messages' = messages \o r.msgs
                      /\ ccache' = AfterBody(ccache, <<>>, r, now, TTL_COUNTRIES)
                      /\ lastC' = [called |-> TRUE, key |-> <<>>, ok |-> r.returns,
                                   ran |-> TRUE, sent |-> Len(jobs') - Len(jobs),
                                   stored |-> now,
                                   value |-> r.value]
                      /\ countries' = IF r.returns THEN r.value ELSE countries
                      /\ pc' = IF r.returns THEN "empty_check" ELSE "stopped"
    /\ UNCHANGED <<table, now, run, qcache, sidebar, range, df, rendered, lastQ>>

\* a script without the check of lines 123-125
EmptyCheckSkipped ==
    /\ pc = "empty_check"
    /\ pc' = "default"
    /\ UNCHANGED <<table, now, run, caches, countries, sidebar, range, df,
                   rendered, messages, jobs, lastC, lastQ>>

\* lines 123-125: if not countries: st.warning(...); st.stop()
EmptyCheck ==
    /\ pc = "empty_check"
    /\ IF countries = <<>>
       THEN /\ messages' = Append(messages, NoCountriesMsg)
            /\ pc' = "stopped"
       ELSE /\ pc' = "default"
            /\ UNCHANGED messages
    /\ UNCHANGED <<table, now, run, caches, countries, sidebar, range, df,
                   rendered, jobs, lastC, lastQ>>

\* lines 127-131
DefaultCountry ==
    /\ pc = "default"
    /\ default_country' = pick_default_country(countries)
    /\ default_idx' = DefaultIdx(countries, default_country').idx
    /\ idx_fallback' = DefaultIdx(countries, default_country').fallback
    /\ pc' = "widgets"
    /\ UNCHANGED <<table, now, run, caches, countries, selected_country,
                   raw_range, range, df, rendered, messages, jobs, lastC, lastQ>>

\* lines 133-143: the selectbox gives the entry the user left or picked (the
\* default one, or one at a place of Picks), the date widget one of Ranges
Widgets(Ranges, Picks) ==
    /\ pc = "widgets"
    /\ \E i \in {default_idx} \cup {j \in Picks : j < Len(countries)} :
          selected_country' = countries[i + 1]
    /\ raw_range' \in Ranges
    /\ pc' = "normalize"
    /\ UNCHANGED <<table, now, run, caches, countries, default_country,
                   default_idx, idx_fallback, range, df, rendered, messages,
                   jobs, lastC, lastQ>>

\* lines 147-155
Normalize ==
    /\ pc = "normalize"
    /\ start_date' = NormalizeRange(raw_range)[1]
    /\ end_date' = NormalizeRange(raw_range)[2]
    /\ pc' = "query"
    /\ UNCHANGED <<table, now, run, caches, countries, sidebar, df, rendered,
                   messages, jobs, lastC, lastQ>>

\* the answers the warehouse can give to the ranking job: a result of the
\* query or an error; parameters that are no dates only fail (a tuple is no
\* DATE value)
TopTermsAnswers(tbl, country, start, end) ==
    {Failure(x, {}) : x \in Errors}
        \cup IF start.kind = "date" /\ end.kind = "date"
             THEN {Success(v) : v \in TOP_TERMS_SQL(tbl, country, start.items[1],
                                                    end.items[1])}
             ELSE {}

\* line 162, execute_query(...) behind @st.cache_data(ttl=600)
ExecuteQuery ==
    /\ pc = "query"
    /\ LET key == <<selected_country, start_date, end_date>>
           hit == Hit(qcache, key, now, TTL_QUERY)
       IN  IF hit # {}
           THEN LET e == CHOOSE x \in hit : TRUE
                IN  /\ df' = [has |-> TRUE, rows |-> e.value]
                    /\ pc' = "render"
                    /\ UNCHANGED <<qcache, messages, jobs>>
                    /\ lastQ' = [called |-> TRUE, key |-> key, ok |-> TRUE,
                                 ran |-> FALSE, sent |-> Len(jobs') - Len(jobs),
                                 stored |-> e.at,
                                 value |-> e.value]
           ELSE \E out \in TopTermsAnswers(table, selected_country, start_date,
                                           end_date) :
                  LET r == execute_query_body(out)
                  IN  /\ jobs' = Append(jobs, [query |-> "top_terms", ok |-> out.ok,
                                               err |-> out.err])
                      /\ messages' = messages \o r.msgs
                      /\ qcache' = AfterBody(qcache, key, r, now, TTL_QUERY)
                      /\ lastQ' = [called |-> TRUE, key |-> key, ok |-> r.returns,
                                   ran |-> TRUE, sent |-> Len(jobs') - Len(jobs),
                                   stored |-> now,
                                   value |-> r.value]
                      /\ df' = IF r.returns THEN [has |-> TRUE, rows |-> r.value]
                               ELSE df
                      /\ pc' = IF r.returns THEN "render" ELSE "stopped"
    /\ UNCHANGED <<table, now, run, ccache, countries, sidebar, range, rendered,
                   lastC>>

\* lines 164-185
Render ==
    /\ pc = "render"
    /\ IF df.rows # {}
       THEN /\ rendered' = "chart"
            /\ UNCHANGED messages
       ELSE /\ rendered' = "no_data"
            /\ messages' = Append(messages, NoDataMsg)
    /\ pc' = "done"
    /\ UNCHANGED <<table, now, run, caches, countries, sidebar, range, df, jobs,
                   lastC, lastQ>>

\* The user triggers the next script run gap seconds after the last one ended;
\* the source table may have been refreshed meanwhile.  The caches are the
\* process's, everything else starts anew.
Rerun(gap, tbl) ==
    /\ pc \in {"done", "stopped"}
    /\ run < MaxRuns
    /\ run' = run + 1
    /\ now' = now + gap
    /\ table' = tbl
    /\ pc' = "countries"
    /\ countries' = <<>>
    /\ default_country' = "None"
    /\ default_idx' = -1
    /\ idx_fallback' = FALSE
    /\ selected_country' = "None"
    /\ raw_range' = NoneV
    /\ start_date' = NoneV
    /\ end_date' = NoneV
    /\ df' = NoDf
    /\ rendered' = "nothing"
    /\ messages' = <<>>
    /\ jobs' = <<>>
    /\ UNCHANGED <<caches, lastC, lastQ>>

\* ----------------------------------------------------------------- inputs
\* every shape the date widget can deliver: a bare date, or a tuple of no,
\* one or two dates
AllRanges ==
    {DateV(d) : d \in Dates} \cup {TupleV(<<>>)} \cup {TupleV(<<d>>) : d \in Dates}
        \cup {TupleV(<<a, b>>) : a \in Dates, b \in Dates}

AllPicks == 0..(Len(AllCountries) - 1)

\* every country list the warehouse can hold
AllTables == {CountryRows(S) : S \in SUBSET Range(AllCountries)}

\* a session's inputs: a range in order, one out of order, a single date
SessionRanges == {TupleV(<<1, 2>>), TupleV(<<2, 1>>), TupleV(<<1>>)}

SessionPicks == {0}

SessionTables ==
    { CountryRows({}), CountryRows({"France", "Germany"}),
      CountryRows({"France", "Philippines", "United States"}) }

\* the gaps between two script runs, around both time-to-live windows
Gaps == {TTL_QUERY - 1, TTL_QUERY, TTL_COUNTRIES - TTL_QUERY}

\* the source tables of the ranking query: up to MaxRows rows of any pattern
\* in week 1, up to MaxRows in week 2, and another country's rows
RankTables ==
    { Bucket("Philippines", 1, n1, p) \cup Bucket("Philippines", 2, n2, "by_rank")
          \cup Bucket("France", 1, 2, "by_rank")
      : n1 \in 0..MaxRows, n2 \in 0..MaxRows, p \in Patterns }

RankRanges == {TupleV(<<a, b>>) : a \in Dates, b \in Dates}

\* ------------------------------------------------------------ specifications
\* one script run of a fresh process, over every input
Init == InitWith(AllTables)

Next ==
    \/ GetCountries
    \/ EmptyCheck
    \/ DefaultCountry
    \/ Widgets(AllRanges, AllPicks)
    \/ Normalize
    \/ ExecuteQuery
    \/ Render

Spec == Init /\ [][Next]_vars

\* a session: the first script run and its reruns against the process's caches
InitSession == InitWith(SessionTables)

NextSession ==
    \/ GetCountries
    \/ EmptyCheck
    \/ DefaultCountry
    \/ Widgets(SessionRanges, SessionPicks)
    \/ Normalize
    \/ ExecuteQuery
    \/ Render
    \/ \E gap \in Gaps, tbl \in SessionTables : Rerun(gap, tbl)

SpecSession == InitSession /\ [][NextSession]_vars

\* one script run over the source tables of the ranking query
InitRank == InitWith(RankTables)

NextRank ==
    \/ GetCountries
    \/ EmptyCheck
    \/ DefaultCountry
    \/ Widgets(RankRanges, AllPicks)
    \/ Normalize
    \/ ExecuteQuery
    \/ Render

SpecRank == InitRank /\ [][NextRank]_vars

\* ------------------------------------------------------------------- claims
\* the places of the failed jobs of this run
FailedJobs == {i \in 1..Len(jobs) : ~jobs[i].ok}

\* the step of a script run that makes the call of get_countries / execute_query
CountriesCall == pc = "countries" /\ pc' # "countries"

QueryCall == pc = "query" /\ pc' # "query"

\* C1: a call whose key equals that of the call before it, made less than the
\* time-to-live (3600 s for get_countries, 600 s for execute_query) after that
\* call computed its value, submits no job, so that the two calls submit one
\* job in total, and returns the value the first call stored.
C1_SecondCallServedFromCache ==
    [][ /\ ( /\ QueryCall
             /\ lastQ.called /\ lastQ.ran /\ lastQ.ok
             /\ lastQ.key = <<selected_country, start_date, end_date>>
             /\ now < lastQ.stored + 600 )
           => /\ lastQ.sent + (Len(jobs') - Len(jobs)) = 1
              /\ df' = [has |-> TRUE, rows |-> lastQ.value]
              /\ pc' = "render"
        /\ ( /\ CountriesCall
             /\ lastC.called /\ lastC.ran /\ lastC.ok
             /\ now < lastC.stored + 3600 )
           => /\ lastC.sent + (Len(jobs') - Len(jobs)) = 1
              /\ countries' = lastC.value
              /\ pc' = "empty_check"
      ]_vars

\* a later script run in which both calls were served from entries an earlier
\* run stored
C1_Witness ==
    /\ run >= 2
    /\ pc = "render"
    /\ jobs = <<>>
    /\ lastC.called /\ ~lastC.ran /\ lastC.stored < now
    /\ lastQ.called /\ ~lastQ.ran /\ lastQ.stored < now
    /\ df.rows # {}

\* C2: a call whose warehouse job fails, whatever the error's class, leaves
\* both caches as they were, and the next call with the same key submits a
\* new job.
C2_FailureNotCached ==
    [][ /\ ( /\ (CountriesCall \/ QueryCall)
             /\ Len(jobs') = Len(jobs) + 1
             /\ ~jobs'[Len(jobs')].ok )
           => /\ ccache' = ccache
              /\ qcache' = qcache
        /\ ( /\ QueryCall
             /\ lastQ.called /\ ~lastQ.ok
             /\ lastQ.key = <<selected_country, start_date, end_date>> )
           => /\ Len(jobs') = Len(jobs) + 1
              /\ jobs'[Len(jobs')].query = "top_terms"
        /\ ( CountriesCall /\ lastC.called /\ ~lastC.ok )
           => /\ Len(jobs') = Len(jobs) + 1
              /\ jobs'[Len(jobs')].query = "countries"
      ]_vars

\* a later run is about to repeat the call whose job failed in the run before;
\* the cache holds nothing for its key
C2_Witness ==
    /\ run >= 2
    /\ pc = "query"
    /\ lastQ.called /\ lastQ.ran /\ ~lastQ.ok
    /\ lastQ.key = <<selected_country, start_date, end_date>>
    /\ \A e \in qcache : e.key # lastQ.key
    /\ ccache # {}

\* C3: in a script run in which a warehouse job failed there is one failed
\* job and it is the run's last job, the run has stopped, its only message is
\* one error message, nothing was returned to the script or drawn, and a
\* failed country job leaves the run without any ranking job.
C3_FailureHalts ==
    FailedJobs # {} =>
        /\ FailedJobs = {Len(jobs)}
        /\ pc = "stopped"
        /\ Len(messages) = 1
        /\ messages[1].level = "error"
        /\ df = NoDf
        /\ rendered = "nothing"
        /\ (jobs[Len(jobs)].query = "countries" =>
                /\ jobs = <<jobs[1]>>
                /\ countries = <<>>
                /\ selected_country = "None")
        /\ \A i, j \in 1..Len(jobs) : jobs[i].query = jobs[j].query => i = j

\* the ranking job failed after the country job had succeeded
C3_Witness ==
    /\ Len(jobs) = 2
    /\ jobs[1].ok /\ ~jobs[2].ok
    /\ jobs[2].query = "top_terms"
    /\ pc = "stopped"
    /\ Len(messages) = 1

\* C4: a failed job of class Forbidden, BadRequest or TooManyRequests gives
\* the one quota message, a failed job of any other class gives the message
\* that carries the error's text, and neither gives a result.
C4_ErrorClassification ==
    \A i \in FailedJobs :
        LET e == jobs[i].err
        IN  /\ messages =
                << IF e.cls \in {"Forbidden", "BadRequest", "TooManyRequests"}
                   THEN [level |-> "error",
                         text |-> "BigQuery quota or credits exceeded. Please try again later.",
                         detail |-> ""]
                   ELSE [level |-> "error",
                         text |-> IF jobs[i].query = "countries"
                                  THEN "Unexpected error while loading countries: "
                                  ELSE "Unexpected error while loading search terms: ",
                         detail |-> e.text] >>
            /\ df = NoDf
            /\ rendered = "nothing"

\* the ranking job was rejected for the bytes it would scan
C4_Witness ==
    /\ Len(jobs) = 2
    /\ jobs[2].err = [cls |-> "BadRequest", text |-> "bytes billed limit exceeded"]
    /\ messages[1].text = QUOTA_TEXT

\* a failure of another class
C4_WitnessUnknown ==
    /\ Len(jobs) = 1
    /\ jobs[1].err.cls = "NotFound"
    /\ messages[1].detail = "table not found"

\* C5: for every selection and every source table, the rank values of the
\* rows the ranking query returns for one week are 1..min(5, N), each once,
\* where N is the number of distinct terms the table holds for that week and
\* the selected country.
C5_RanksAreOneToN ==
    (pc = "render" /\ lastQ.ran /\ lastQ.ok) =>
        \A w \in start_date.items[1]..end_date.items[1] :
            LET got == {r \in df.rows : r.week = w}
                N == Cardinality({r.term : r \in {x \in table :
                         x.country_name = selected_country /\ x.week = w}})
                n == IF N < 5 THEN N ELSE 5
            IN  /\ {r.rank : r \in got} = 1..n
                /\ Cardinality(got) = n

\* C6: a script run whose country list is empty stops at the warning, before
\* a default country, a selection or a date range exists and before any
\* ranking job; wherever the run stands past that check the list is not empty.
C6_EmptyListHalts ==
    /\ pc \in {"default", "widgets", "normalize", "query", "render", "done"}
           => countries # <<>>
    /\ (lastQ.called \/ \E i \in 1..Len(jobs) : jobs[i].query = "top_terms")
           => countries # <<>>
    /\ (pc \notin {"countries", "empty_check"} /\ FailedJobs = {} /\ countries = <<>>)
           => /\ pc = "stopped"
              /\ messages = <<[level |-> "warning",
                               text |-> "No countries available from the dataset.",
                               detail |-> ""]>>
              /\ default_country = "None"
              /\ default_idx = -1
              /\ selected_country = "None"
              /\ start_date = NoneV /\ end_date = NoneV
              /\ df = NoDf

\* the warehouse listed no country and the run stopped at the warning
C6_Witness ==
    /\ pc = "stopped"
    /\ jobs = <<[query |-> "countries", ok |-> TRUE, err |-> NoErr]>>
    /\ countries = <<>>
    /\ Len(messages) = 1

\* C7: a two-date input (a, b) gives (b, a) when a > b and (a, b) otherwise,
\* without any message, and start_date > end_date never holds when
\* execute_query is called.
C7_PairInOrder ==
    pc \in {"query", "render", "done"} =>
        /\ IsPair(raw_range) =>
              LET a == raw_range.items[1]
                  b == raw_range.items[2]
              IN  /\ a > b => start_date = DateV(b) /\ end_date = DateV(a)
                  /\ a <= b => start_date = DateV(a) /\ end_date = DateV(b)
                  /\ start_date.items[1] <= end_date.items[1]
        /\ ~PyGt(start_date, end_date)
        /\ pc = "query" => messages = <<>>

\* the widget gave the later date first
C7_Witness ==
    /\ pc = "query"
    /\ raw_range = TupleV(<<2, 1>>)
    /\ start_date = DateV(1)
    /\ end_date = DateV(2)

\* C8: a single date d, given as a bare date or as a sequence of one date,
\* gives start_date = end_date = the date d.
C8_SingleDate ==
    ( /\ pc \in {"query", "render", "done"}
      /\ raw_range.kind \in {"date", "tuple"}
      /\ Len(raw_range.items) = 1 )
        => /\ start_date = DateV(raw_range.items[1])
           /\ end_date = DateV(raw_range.items[1])

\* C9: the default country is the first of "Philippines", "United States"
\* that the list holds, else the list's first entry; it is an entry of the
\* list, and default_idx is its place, found without the ValueError branch.
C9_DefaultCountry ==
    pc \in {"widgets", "normalize", "query", "render", "done"} =>
        /\ default_country =
              IF \E i \in 1..Len(countries) : countries[i] = "Philippines"
              THEN "Philippines"
              ELSE IF \E i \in 1..Len(countries) : countries[i] = "United States"
              THEN "United States"
              ELSE countries[1]
        /\ \E i \in 1..Len(countries) : countries[i] = default_country
        /\ ~idx_fallback
        /\ countries[default_idx + 1] = default_country
        /\ countries = <<"France", "Philippines", "United States">>
              => default_country = "Philippines"
        /\ countries = <<"France", "Germany">> => default_country = "France"

\* the list of the first example
C9_Witness ==
    /\ pc = "widgets"
    /\ countries = <<"France", "Philippines", "United States">>
    /\ default_country = "Philippines"
    /\ default_idx = 1

\* the list of the second example
C9_WitnessFallback ==
    /\ pc = "widgets"
    /\ countries = <<"France", "Germany">>
    /\ default_country = "France"
    /\ default_idx = 0

\* C10: an empty list that a successful country job gave is stored; while the
\* entry is less than 3600 s old every call of get_countries returns it
\* without a job and the run stops at the warning; once it is that old the
\* call submits the country job again.
C10_EmptyListCached ==
    [][ /\ ( /\ CountriesCall
             /\ Len(jobs') = Len(jobs) + 1
             /\ jobs'[Len(jobs')].ok
             /\ table = {} )
           => /\ ccache' = {[key |-> <<>>, value |-> <<>>, at |-> now]}
              /\ countries' = <<>>
        /\ ( CountriesCall /\ lastC.called /\ lastC.ok /\ lastC.value = <<>> )
           => IF now < lastC.stored + 3600
              THEN /\ jobs' = jobs
                   /\ countries' = <<>>
                   /\ pc' = "empty_check"
              ELSE /\ Len(jobs') = Len(jobs) + 1
                   /\ jobs'[Len(jobs')].query = "countries"
        /\ ( pc = "empty_check" /\ pc' # pc /\ countries = <<>> )
           => /\ pc' = "stopped"
              /\ jobs' = jobs
              /\ messages' = <<NoCountriesMsg>>
      ]_vars

\* a later run stopped at the warning on the cached empty list, though the
\* table lists countries by then
C10_Witness ==
    /\ run >= 2
    /\ pc = "stopped"
    /\ countries = <<>>
    /\ jobs = <<>>
    /\ lastC.called /\ ~lastC.ran /\ lastC.stored < now
    /\ messages = <<NoCountriesMsg>>
    /\ table # {}

\* the stored empty list has expired when the next run calls get_countries
C10_WitnessExpired ==
    /\ run >= 2
    /\ pc = "countries"
    /\ lastC.called /\ lastC.ok /\ lastC.value = <<>>
    /\ now >= lastC.stored + 3600

====
